---- MODULE Spec2Model ----
(***************************************************************************)
(* A model of import_mu.py, the importer of KSP .mu models: the path       *)
(* indexer (create_object_paths), the raster decoder (load_mbm and         *)
(* convert_bump), the texture loop (create_textures), the object builder   *)
(* (create_object) and the two entry points (import_mu, import_mu_op).     *)
(*                                                                         *)
(* Python strings are modelled as sequences of one-character strings, so   *)
(* that "/".join is a real concatenation and two different lists of names  *)
(* can join to the same path.  Python dicts are functions whose domain is  *)
(* the set of keys.  Nodes of the decoded tree are numbered 1..n in        *)
(* pre-order (children in decoded order); par[i] is the parent of node i   *)
(* and 0 for the root.                                                     *)
(***************************************************************************)
EXTENDS Integers, Sequences, FiniteSets, TLC

\* ------------------------------------------------------------------ bounds
MaxNodes == 4

\* the largest width and height of a raster
MaxDim == 3

\* the most textures in mu.textures
MaxTextures == 2

\* the most materials in mu.materials, and the largest material index of a node
MaxMaterials == 2

\* the most nodes of a tree that is imported with its components
MaxImportNodes == 3

\* ------------------------------------------------------------------ state
VARIABLES
    pc,            \* position of the running entry point
    par,           \* the decoded tree: par[i] = parent of node i, 0 for mu.obj
    name,          \* name[i] = muobj.transform.name of node i
    comp,          \* comp[i] = the component attributes of node i
    anim,          \* anim[i] = the clips of node i, each the list of its curves' paths
    textures,      \* mu.textures, each with the files found next to the model
    entry,         \* the entry point called: import_mu_op or import_mu
    readOk,        \* what Mu.read(filepath) returns
    undo,          \* use_global_undo before the call
    stack,         \* call stack of the recursion in progress
    parents,       \* the list 'parents' shared by all create_object_paths calls
    path,          \* path[i] = muobj.path, defined once the attribute is set
    objects,       \* mu.objects
    object_paths,  \* mu.object_paths
    visited,       \* nodes in the order create_object_paths inserted them
    mbm,           \* the raster file at mbmpath, and the arguments of convert_bump
    ret,           \* what the call returned or raised
    use_global_undo, \* bpy.context.user_preferences.edit.use_global_undo
    reports,       \* what operator.report was called with
    result,        \* what the entry point returned
    tex,           \* create_textures: the texture and the candidate being tried
    bpy_textures,  \* the textures of mu.textures that have a bpy texture
    materials,     \* mu.materials: materials[k] is TRUE once mumat.material is set
    bobj,          \* bobj[i] = the kind of muobj.bobj, for the nodes that have one
    mesh_materials, \* mesh_materials[i] = the materials appended to the mesh of node i
    resolved,      \* the nodes create_action looked up in mu.object_paths, in order
    exc            \* the exception that left the entry point, if any

treeVars == <<par, name, comp, anim, textures, entry, readOk, undo>>
pathVars == <<stack, parents, path, objects, object_paths, visited>>
mbmVars == <<mbm, ret>>
importVars ==
    <<use_global_undo, reports, result, tex, bpy_textures, materials, bobj,
      mesh_materials, resolved, exc>>

vars == <<pc, treeVars, pathVars, mbmVars, importVars>>

\* ------------------------------------------------------------------ strings
Slash == <<"/">>

Names == {<<>>, <<"a">>, <<"b">>, Slash}

RECURSIVE Join(_)
\* "/".join(strs)
Join(strs) ==
    IF Len(strs) = 0 THEN <<>>
    ELSE IF Len(strs) = 1 THEN strs[1]
    ELSE strs[1] \o Slash \o Join(Tail(strs))

HasSlash(s) == \E k \in 1..Len(s) : s[k] = "/"

\* ------------------------------------------------------------------ dicts
EmptyDict == [k \in {} |-> 0]

\* d[key] = value
DictSet(d, key, value) ==
    [k \in DOMAIN d \cup {key} |-> IF k = key THEN value ELSE d[k]]

\* ------------------------------------------------------------------ lists
Min(a, b) == IF a < b THEN a ELSE b

\* lst[lo:hi] for 0 <= lo <= hi: the slice is clipped to the list
Slice(lst, lo, hi) == SubSeq(lst, Min(lo, Len(lst)) + 1, Min(hi, Len(lst)))

\* lst[lo:hi] = q for 0 <= lo <= hi: the clipped slice is replaced by q,
\* whatever the length of q
SliceAssign(lst, lo, hi, q) ==
    SubSeq(lst, 1, Min(lo, Len(lst))) \o q \o SubSeq(lst, Min(hi, Len(lst)) + 1, Len(lst))

RECURSIVE Repeat(_, _)
\* lst * k: the empty list for k <= 0
Repeat(lst, k) == IF k <= 0 THEN <<>> ELSE lst \o Repeat(lst, k - 1)

NoFile == [kind |-> "none"]

NoResult == [exc |-> "pending"]

\* an exception leaves the function with nothing but itself
Raise(e) == [exc |-> e]

NoExc == [kind |-> "none", where |-> "none"]

\* a node with a transform only
NoComponents == [has |-> {}, smr_materials |-> <<>>, renderer_materials |-> <<>>]

\* no entry point is running
NoImport ==
    /\ textures = <<>>
    /\ entry = "none"
    /\ readOk = TRUE
    /\ undo = FALSE
    /\ use_global_undo = FALSE
    /\ reports = <<>>
    /\ result = "pending"
    /\ tex = [i |-> 1, c |-> 1]
    /\ bpy_textures = {}
    /\ materials = <<>>
    /\ bobj = EmptyDict
    /\ mesh_materials = EmptyDict
    /\ resolved = <<>>
    /\ exc = NoExc

\* ------------------------------------------------------------------ trees
NumNodes == Len(par)

Nodes == 1..NumNodes

RECURSIVE AncSelf(_, _)
\* node i and its ancestors in the tree p
AncSelf(p, i) == IF i = 0 THEN {} ELSE {i} \cup AncSelf(p, p[i])

\* the ordered trees of n nodes, numbered in pre-order: the parent of node i
\* is node i-1 or one of its ancestors
Trees(n) ==
    {p \in [1..n -> 0..(n - 1)] :
        /\ p[1] = 0
        /\ \A i \in 2..n : p[i] >= 1 /\ p[i] < i
        /\ \A i \in 2..n : p[i] \in AncSelf(p, i - 1)}

ChildSet(obj) == {i \in Nodes : par[i] = obj}

NumChildren(obj) == Cardinality(ChildSet(obj))

\* the children taken from the last to the first
ChildReversed(obj, k) ==
    CHOOSE c \in {i \in 1..Len(par) : par[i] = obj} :
        Cardinality({d \in {i \in 1..Len(par) : par[i] = obj} : d > c}) = k - 1

\* obj.children[k - 1]: the k-th child in decoded order
Child(obj, k) ==
    CHOOSE c \in ChildSet(obj) : Cardinality({d \in ChildSet(obj) : d < c}) = k - 1

\* ------------------------------------------------- create_object_paths
Frame(obj) == [obj |-> obj, entered |-> FALSE, next |-> 1]

Top == stack[Len(stack)]

Pop(s) == SubSeq(s, 1, Len(s) - 1)

\* create_object_paths(mu): the outer call resets both tables and starts the
\* recursion at mu.obj with an empty list of parents
PathsBegin ==
    /\ pc = "paths"
    /\ objects' = EmptyDict
    /\ object_paths' = EmptyDict
    /\ parents' = <<>>
    /\ stack' = <<Frame(1)>>
    /\ pc' = "paths_run"
    /\ UNCHANGED <<treeVars, mbmVars, importVars, path, visited>>

\* a path that forgets the ancestors
PathOfNameOnly(ps, nm) == nm

\* obj.path = "/".join(parents), after parents.append(name)
PathOf(ps, nm) == Join(Append(ps, nm))

\* the body of one call up to its loop: name the node and enter it in both tables
PathsVisit ==
    /\ pc = "paths_run"
    /\ ~Top.entered
    /\ LET obj == Top.obj
           p   == PathOf(parents, name[obj])
       IN /\ parents' = Append(parents, name[obj])
          /\ path' = DictSet(path, obj, p)
          /\ objects' = DictSet(objects, name[obj], obj)
          /\ object_paths' = DictSet(object_paths, p, obj)
          /\ visited' = Append(visited, obj)
    /\ stack' = [stack EXCEPT ![Len(stack)].entered = TRUE]
    /\ UNCHANGED <<pc, treeVars, mbmVars, importVars>>

\* one iteration of 'for child in obj.children': the recursive call
PathsDescend ==
    /\ pc = "paths_run"
    /\ Top.entered
    /\ Top.next <= NumChildren(Top.obj)
    /\ stack' = Append([stack EXCEPT ![Len(stack)].next = Top.next + 1],
                       Frame(Child(Top.obj, Top.next)))
    /\ UNCHANGED <<pc, treeVars, mbmVars, importVars, parents, path, objects, object_paths, visited>>

\* a return that leaves the name on the list
ParentsPopNone(ps) == ps

\* parents.pop()
ParentsPop(ps) == Pop(ps)

\* the loop is over: pop the name and return to the caller
PathsReturn ==
    /\ pc = "paths_run"
    /\ Top.entered
    /\ Top.next > NumChildren(Top.obj)
    /\ parents' = ParentsPop(parents)
    /\ stack' = Pop(stack)
    /\ pc' = IF Len(stack) = 1 THEN "paths_done" ELSE pc
    /\ UNCHANGED <<treeVars, mbmVars, importVars, path, objects, object_paths, visited>>

\* ------------------------------------------------------------------ SpecPaths
\* create_object_paths on every tree of at most MaxNodes nodes named from Names
InitPaths ==
    /\ pc = "paths"
    /\ par \in UNION {Trees(n) : n \in 1..MaxNodes}
    /\ name \in [1..Len(par) -> Names]
    /\ stack = <<>>
    /\ parents = <<>>
    /\ path = EmptyDict
    /\ objects = EmptyDict
    /\ object_paths = EmptyDict
    /\ visited = <<>>
    /\ mbm = NoFile
    /\ ret = NoResult
    /\ comp = [i \in 1..Len(par) |-> NoComponents]
    /\ anim = [i \in 1..Len(par) |-> <<>>]
    /\ NoImport

NextPaths == PathsBegin \/ PathsVisit \/ PathsDescend \/ PathsReturn

SpecPaths == InitPaths /\ [][NextPaths]_vars

\* ------------------------------------------------------------------ claims on SpecPaths
PathsDone == pc = "paths_done"

\* C1: after create_object_paths the root's path is its own name, the path of
\* every other node is its parent's path, "/", and its own name, and the list
\* of parents is empty again.
C1_PathIsParentPathSlashName ==
    PathsDone =>
        /\ parents = <<>>
        /\ DOMAIN path = Nodes
        /\ path[1] = name[1]
        /\ \A i \in 2..NumNodes : path[i] = path[par[i]] \o Slash \o name[i]

\* a finished traversal of a tree where a node follows the subtree of its sibling
C1_Witness ==
    /\ PathsDone
    /\ par = <<0, 1, 2, 1>>
    /\ name[2] # name[4]
    /\ path[4] = name[1] \o Slash \o name[4]

PathsAreUnique ==
    /\ \A i, j \in Nodes : i # j => path[i] # path[j]
    /\ Cardinality(DOMAIN object_paths) = NumNodes
    /\ \A i \in Nodes : object_paths[path[i]] = i

SiblingsDistinct ==
    \A i, j \in Nodes : (i # j /\ par[i] = par[j]) => name[i] # name[j]

NoSlashInNames == \A i \in Nodes : ~HasSlash(name[i])

C3_ObjectsLastInPreOrder ==
    PathsDone =>
        /\ visited = [i \in Nodes |-> i]
        /\ DOMAIN objects = {name[i] : i \in Nodes}
        /\ \A i \in Nodes :
               objects[name[i]] = CHOOSE j \in Nodes :
                   /\ name[j] = name[i]
                   /\ \A k \in Nodes : name[k] = name[i] => k <= j

\* a finished traversal where two siblings and their parent share one name
C3_Witness ==
    /\ PathsDone
    /\ par = <<0, 1, 1>>
    /\ name[1] = name[2]
    /\ name[2] = name[3]
    /\ objects[name[1]] = 3

\* ------------------------------------------------------------------ convert_bump
\* the two channels the other way round
BumpPixelSwapped(p) == <<p[3], p[4], 255, 255>>

\* n = [p[3], p[2], 255, 255], with p counted from 1
BumpPixel(p) == <<p[4], p[3], 255, 255>>

RECURSIVE BumpLoop(_, _, _, _, _, _)
\* the two loops from pixel (x, y) on: y in range(1, height - 1), x in
\* range(1, width - 1); p[3] of a slice cut short by the end of the buffer
\* raises IndexError
BumpLoop(pixels, outp, width, height, y, x) ==
    IF y >= height - 1 THEN [exc |-> "none", pixels |-> outp]
    ELSE IF x >= width - 1 THEN BumpLoop(pixels, outp, width, height, y + 1, 1)
    ELSE LET index == (y * width + x) * 4
             p     == Slice(pixels, index, index + 4)
         IN IF Len(p) < 4 THEN Raise("IndexError")
            ELSE BumpLoop(pixels, SliceAssign(outp, index, index + 4, BumpPixel(p)),
                          width, height, y, x + 1)

\* convert_bump(pixels, width, height): outp starts as a copy of pixels
ConvertBump(pixels, width, height) == BumpLoop(pixels, pixels, width, height, 1, 1)

\* ------------------------------------------------------------------ load_mbm
\* 0x50534b03
MbmMagic == 1347636995

\* a decoder that takes any magic
MagicOkAny(magic) == TRUE

MagicOk(magic) == magic = MbmMagic

BppOk(bpp) == bpp \in {24, 32}

\* mbmfile.read(n) at the start of the payload, for n >= 0: at most n bytes
Read(data, n) == Slice(data, 0, n)

RECURSIVE ExpandRGB(_, _, _, _)
\* for i in range(n): p = mbmfile.read(3); pixels[4i:4i+3] = list(p)
\* (the reads are consecutive, so read i starts at byte 3i or at the end)
ExpandRGB(pixels, data, i, n) ==
    IF i >= n THEN pixels
    ELSE ExpandRGB(SliceAssign(pixels, i * 4, i * 4 + 3, Slice(data, 3 * i, 3 * i + 3)),
                   data, i + 1, n)

\* the pixel list before the bump remap; the read of a negative number of
\* bytes (other than -1, which no multiple of 4 is) raises ValueError
MbmPixels(f) ==
    IF f.bpp = 32
    THEN IF f.width * f.height * 4 < 0 THEN Raise("ValueError")
         ELSE [exc |-> "none", pixels |-> Read(f.data, f.width * f.height * 4)]
    ELSE [exc |-> "none",
          pixels |-> ExpandRGB(Repeat(Repeat(<<0, 0, 0, 255>>, f.width), f.height),
                               f.data, 0, f.width * f.height)]

\* load_mbm(mbmpath) on the file f
LoadMbm(f) ==
    IF f.kind = "missing" THEN Raise("FileNotFoundError")
    ELSE IF f.kind = "short" THEN Raise("struct.error")
    ELSE IF ~MagicOk(f.magic) THEN Raise("RuntimeError")
    ELSE IF ~BppOk(f.bpp) THEN Raise("RuntimeError")
    ELSE LET read   == MbmPixels(f)
             bumped == IF read.exc = "none" /\ f.bump # 0
                       THEN ConvertBump(read.pixels, f.width, f.height)
                       ELSE read
         IN IF bumped.exc # "none" THEN bumped
            ELSE [exc |-> "none", width |-> f.width, height |-> f.height,
                  pixels |-> bumped.pixels]

\* a call of load_mbm
LoadMbmCall ==
    /\ pc = "load_mbm"
    /\ ret' = LoadMbm(mbm)
    /\ pc' = IF ret'.exc = "none" THEN "mbm_returned" ELSE "mbm_raised"
    /\ UNCHANGED <<treeVars, pathVars, importVars, mbm>>

\* a call of convert_bump on a buffer of its own, as load_image makes for .dds
ConvertBumpCall ==
    /\ pc = "convert_bump"
    /\ ret' = ConvertBump(mbm.data, mbm.width, mbm.height)
    /\ pc' = IF ret'.exc = "none" THEN "bump_returned" ELSE "bump_raised"
    /\ UNCHANGED <<treeVars, pathVars, importVars, mbm>>

\* ------------------------------------------------------------------ SpecMbm
Dims == -1..MaxDim

\* payloads of every length up to one byte more than the largest raster
\* needs; neighbouring bytes differ
Data(seed, len) == [k \in 1..len |-> (seed + 37 * k) % 256]

Payloads == {Data(seed, len) : seed \in {3, 200}, len \in 0..(MaxDim * MaxDim * 4 + 1)}

MbmFiles ==
    {[kind |-> "missing"], [kind |-> "short"]} \cup
    [kind : {"full"}, magic : {MbmMagic, 0}, width : Dims, height : Dims,
     bump : {0, 1, 2}, bpp : {8, 24, 32}, data : Payloads]

\* load_mbm on every file, and convert_bump on every buffer and size
InitMbm ==
    /\ \/ pc = "load_mbm" /\ mbm \in MbmFiles
       \/ pc = "convert_bump" /\ mbm \in [kind : {"buffer"}, width : Dims,
                                          height : Dims, data : Payloads]
    /\ ret = NoResult
    /\ par = <<0>>
    /\ name = <<<<>>>>
    /\ comp = <<NoComponents>>
    /\ anim = <<<<>>>>
    /\ NoImport
    /\ stack = <<>>
    /\ parents = <<>>
    /\ path = EmptyDict
    /\ objects = EmptyDict
    /\ object_paths = EmptyDict
    /\ visited = <<>>

NextMbm == LoadMbmCall \/ ConvertBumpCall

SpecMbm == InitMbm /\ [][NextMbm]_vars

\* ------------------------------------------------------------------ claims on SpecMbm
\* entry k (from 1) of an RGBA buffer belongs to a pixel off the 1-pixel border
InteriorEntry(k, width, height) ==
    /\ width >= 3
    /\ height >= 3
    /\ LET pix == (k - 1) \div 4
       IN /\ 1 <= pix % width /\ pix % width <= width - 2
          /\ 1 <= pix \div width /\ pix \div width <= height - 2

\* out is src with every interior pixel (R, G, B, A) turned into (A, B, 255, 255)
IsRemapOf(out, src, width, height) ==
    /\ Len(out) = Len(src)
    /\ \A k \in 1..Len(src) :
           LET first == ((k - 1) \div 4) * 4 + 1
               chan  == (k - 1) % 4
           IN out[k] = IF ~InteriorEntry(k, width, height) THEN src[k]
                       ELSE IF chan = 0 THEN src[first + 3]
                       ELSE IF chan = 1 THEN src[first + 2]
                       ELSE 255

\* the buffer load_mbm holds before the remap when the payload is whole: the
\* payload itself at 32 bits per pixel, the RGB triples with 255 after each at 24
WholeBuffer(f) ==
    IF f.bpp = 32 THEN SubSeq(f.data, 1, f.width * f.height * 4)
    ELSE [k \in 1..(f.width * f.height * 4) |->
             IF (k - 1) % 4 = 3 THEN 255
             ELSE f.data[((k - 1) \div 4) * 3 + ((k - 1) % 4) + 1]]

\* C4: convert_bump on a buffer of width*height*4 entries turns every pixel off
\* the border into (srcA, srcB, 255, 255) and returns the border unchanged;
\* load_mbm returns the remapped buffer when bumpFlag is not 0 and the buffer
\* as it is when bumpFlag is 0 (whole payload present, sizes not negative).
C4_BumpRemap ==
    /\ (pc \in {"bump_returned", "bump_raised"}
            /\ Len(mbm.data) = mbm.width * mbm.height * 4)
        => (pc = "bump_returned"
            /\ IsRemapOf(ret.pixels, mbm.data, mbm.width, mbm.height))
    /\ (pc \in {"mbm_returned", "mbm_raised"} /\ mbm.kind = "full"
            /\ mbm.magic = MbmMagic /\ mbm.bpp \in {24, 32}
            /\ mbm.width >= 0 /\ mbm.height >= 0
            /\ Len(mbm.data) >= mbm.width * mbm.height * (mbm.bpp \div 8))
        => (pc = "mbm_returned"
            /\ IF mbm.bump # 0
               THEN IsRemapOf(ret.pixels, WholeBuffer(mbm), mbm.width, mbm.height)
               ELSE ret.pixels = WholeBuffer(mbm))

\* load_mbm has returned a 3 by 3 raster with a bump flag of 2, its middle pixel
\* remapped
C4_Witness ==
    /\ pc = "mbm_returned"
    /\ mbm.bump = 2
    /\ mbm.bpp = 32
    /\ mbm.width = 3
    /\ mbm.height = 3
    /\ Len(mbm.data) = 36
    /\ SubSeq(ret.pixels, 17, 20) = <<mbm.data[20], mbm.data[19], 255, 255>>
    /\ SubSeq(ret.pixels, 17, 20) # SubSeq(mbm.data, 17, 20)

MbmCallOver == pc \in {"mbm_returned", "mbm_raised"}

Rgb24Pixel(i) ==
    /\ Len(ret.pixels) >= 4 * i + 4
    /\ SubSeq(ret.pixels, 4 * i + 1, 4 * i + 4) =
           <<mbm.data[3 * i + 1], mbm.data[3 * i + 2], mbm.data[3 * i + 3], 255>>

Rgb24Call ==
    /\ MbmCallOver
    /\ mbm.kind = "full"
    /\ mbm.magic = MbmMagic
    /\ mbm.bpp = 24
    /\ mbm.bump = 0
    /\ Len(mbm.data) >= 3 * mbm.width * mbm.height

\* C6: load_mbm at 24 bits per pixel without bump flag, given width*height RGB
\* triples, returns pixel i = (R_i, G_i, B_i, 255) for every i below
\* width*height.
C6_Rgb24Expanded ==
    Rgb24Call =>
        (pc = "mbm_returned"
         /\ \A i \in 0..(mbm.width * mbm.height - 1) : Rgb24Pixel(i))

\* the same for the rasters whose width and height are not negative
Rgb24ExpandedNaturalSize ==
    (Rgb24Call /\ mbm.width >= 0 /\ mbm.height >= 0) =>
        (pc = "mbm_returned"
         /\ Len(ret.pixels) = mbm.width * mbm.height * 4
         /\ \A i \in 0..(mbm.width * mbm.height - 1) : Rgb24Pixel(i))

\* C7: whenever load_mbm returns, the pixel buffer has width*height*4 entries.
C7_BufferLength ==
    pc = "mbm_returned" => Len(ret.pixels) = mbm.width * mbm.height * 4

\* the same for the rasters whose payload is whole and whose size is not negative
BufferLengthWholePayload ==
    (pc = "mbm_returned" /\ mbm.width >= 0 /\ mbm.height >= 0
        /\ Len(mbm.data) >= mbm.width * mbm.height * (mbm.bpp \div 8))
    => Len(ret.pixels) = mbm.width * mbm.height * 4

\* ------------------------------------------------------------------ create_textures
Extensions == <<".dds", ".mbm", ".tga", ".png">>

\* ind = extensions.index(ext) if ext in extensions, else 0
ExtIndex(ext) ==
    IF \E k \in 1..Len(Extensions) : Extensions[k] = ext
    THEN (CHOOSE k \in 1..Len(Extensions) : Extensions[k] = ext) - 1
    ELSE 0

\* lst = extensions[ind:] + extensions[:ind]
Candidates(ext) ==
    SubSeq(Extensions, ExtIndex(ext) + 1, Len(Extensions)) \o
    SubSeq(Extensions, 1, ExtIndex(ext))

\* load_image(base + e, path) for the texture t: the exception it raises, or
\* "none".  bpy.data.images.load raises RuntimeError for a file it cannot load;
\* an .mbm file goes through load_mbm.
LoadImage(t, e) ==
    IF e = ".mbm" THEN LoadMbm(t.mbm).exc
    ELSE IF e \in t.host THEN "none"
    ELSE "RuntimeError"

\* except FileNotFoundError: continue / except RuntimeError: continue
Caught(e) == e \in {"FileNotFoundError", "RuntimeError"}

\* one pass of the inner loop 'for e in lst': try the next candidate of the
\* current texture; a success makes the bpy texture and breaks, a caught
\* exception goes on with the next candidate, any other exception leaves
\* create_textures and its callers
TextureTry ==
    /\ pc = "textures"
    /\ tex.i <= Len(textures)
    /\ LET t    == textures[tex.i]
           lst  == Candidates(t.ext)
           out  == LoadImage(t, lst[tex.c])
           next == IF tex.c < Len(lst) THEN [i |-> tex.i, c |-> tex.c + 1]
                   ELSE [i |-> tex.i + 1, c |-> 1]
       IN IF out = "none"
          THEN /\ bpy_textures' = bpy_textures \cup {tex.i}
               /\ tex' = [i |-> tex.i + 1, c |-> 1]
               /\ UNCHANGED <<pc, exc>>
          ELSE IF Caught(out)
          THEN /\ tex' = next
               /\ UNCHANGED <<pc, exc, bpy_textures>>
          ELSE /\ pc' = "aborted"
               /\ exc' = [kind |-> out, where |-> "create_textures"]
               /\ UNCHANGED <<tex, bpy_textures>>
    /\ UNCHANGED <<treeVars, pathVars, mbmVars, use_global_undo, reports, result,
                   materials, bobj, mesh_materials, resolved>>

\* the outer loop is over: create_textures returns to process_mu
TexturesReturn ==
    /\ pc = "textures"
    /\ tex.i > Len(textures)
    /\ pc' = "materials"
    /\ UNCHANGED <<treeVars, pathVars, mbmVars, importVars>>

\* ------------------------------------------------------------------ create_materials
\* mumat.material = make_shader(mumat, mu) for every material
CreateMaterials ==
    /\ pc = "materials"
    /\ materials' = [k \in DOMAIN materials |-> TRUE]
    /\ pc' = "paths"
    /\ UNCHANGED <<treeVars, pathVars, mbmVars, use_global_undo, reports, result,
                   tex, bpy_textures, bobj, mesh_materials, resolved, exc>>

\* ------------------------------------------------------------------ create_object
\* mu.materials[k] raises IndexError unless -len <= k < len
IndexOk(k) == -Len(materials) <= k /\ k < Len(materials)

\* the entry of mu.materials that the index k stands for
Resolve(k) == IF k < 0 THEN k + Len(materials) ELSE k

HasMesh(c) == "shared_mesh" \in c.has \/ "skinned_mesh_renderer" \in c.has

\* the material index the skinned mesh renderer makes create_object look up,
\* as a list of none or one
SmrLookup(c) ==
    IF /\ "shared_mesh" \notin c.has
       /\ "skinned_mesh_renderer" \in c.has
       /\ Len(materials) > 0
       /\ Len(c.smr_materials) > 0
    THEN <<c.smr_materials[1]>> ELSE <<>>

\* the material index the renderer makes create_object look up
RendererLookup(c) ==
    IF /\ "renderer" \in c.has
       /\ Len(materials) > 0
       /\ Len(c.renderer_materials) > 0
       /\ HasMesh(c)
    THEN <<c.renderer_materials[1]>> ELSE <<>>

\* the kind of object made for the node
ObjectKind(c) ==
    IF HasMesh(c) THEN "mesh"
    ELSE IF "camera" \in c.has THEN "camera"
    ELSE IF "light" \in c.has THEN "light"
    ELSE "empty"

\* obj = create_object(scene, mu, mu.obj, None, create_colliders)
ObjectsBegin ==
    /\ pc = "paths_done"
    /\ entry # "none"
    /\ stack' = <<Frame(1)>>
    /\ pc' = "objects"
    /\ UNCHANGED <<treeVars, mbmVars, importVars, parents, path, objects,
                   object_paths, visited>>

\* the body of one call up to its loop over the children: make the mesh and
\* the object, look the materials up, link the object and set muobj.bobj; a
\* failed lookup in mu.materials leaves create_object and its callers
ObjectBuild ==
    /\ pc = "objects"
    /\ ~Top.entered
    /\ LET obj     == Top.obj
           lookups == SmrLookup(comp[obj]) \o RendererLookup(comp[obj])
       IN IF \E k \in 1..Len(lookups) : ~IndexOk(lookups[k])
          THEN /\ pc' = "aborted"
               /\ exc' = [kind |-> "IndexError", where |-> "create_object"]
               /\ UNCHANGED <<stack, bobj, mesh_materials>>
          ELSE /\ bobj' = DictSet(bobj, obj, ObjectKind(comp[obj]))
               /\ mesh_materials' =
                      IF HasMesh(comp[obj])
                      THEN DictSet(mesh_materials, obj,
                                   [k \in 1..Len(lookups) |-> Resolve(lookups[k])])
                      ELSE mesh_materials
               /\ stack' = [stack EXCEPT ![Len(stack)].entered = TRUE]
               /\ UNCHANGED <<pc, exc>>
    /\ UNCHANGED <<treeVars, mbmVars, parents, path, objects, object_paths, visited,
                   use_global_undo, reports, result, tex, bpy_textures, materials,
                   resolved>>

\* one iteration of 'for child in muobj.children': the recursive call
ObjectDescend ==
    /\ pc = "objects"
    /\ Top.entered
    /\ Top.next <= NumChildren(Top.obj)
    /\ stack' = Append([stack EXCEPT ![Len(stack)].next = Top.next + 1],
                       Frame(Child(Top.obj, Top.next)))
    /\ UNCHANGED <<pc, treeVars, mbmVars, importVars, parents, path, objects,
                   object_paths, visited>>

\* ------------------------------------------------------------------ create_action
\* mu_path = path if not curve.path, else "/".join([path, curve.path])
CurveTarget(p, curvePath) ==
    IF Len(curvePath) = 0 THEN p ELSE Join(<<p, curvePath>>)

RECURSIVE AllCurves(_)
\* the curves of the clips, in the order 'for clip' and 'for curve' take them
AllCurves(clips) ==
    IF Len(clips) = 0 THEN <<>> ELSE clips[1] \o AllCurves(Tail(clips))

RECURSIVE Lookups(_, _, _)
\* the nodes mu.object_paths[mu_path] of the curves from the k-th on; a curve
\* whose mu_path is no key is skipped ('Unknown path')
Lookups(obj, curves, k) ==
    IF k > Len(curves) THEN <<>>
    ELSE LET mu_path == CurveTarget(path[obj], curves[k])
         IN IF mu_path \in DOMAIN object_paths
            THEN <<[owner |-> obj, target |-> object_paths[mu_path],
                    built |-> object_paths[mu_path] \in DOMAIN bobj]>>
                 \o Lookups(obj, curves, k + 1)
            ELSE Lookups(obj, curves, k + 1)

\* the position of the first lookup whose node has no bobj yet, or 0
FirstUnbuilt(found) ==
    IF \E k \in 1..Len(found) : ~found[k].built
    THEN CHOOSE k \in 1..Len(found) :
             ~found[k].built /\ \A j \in 1..(k - 1) : found[j].built
    ELSE 0

\* the loop over the children is over: bind the clips of the node and return
\* obj to the caller; '.bobj' of a node that has none raises AttributeError,
\* which leaves create_action, create_object and their callers
ObjectReturn ==
    /\ pc = "objects"
    /\ Top.entered
    /\ Top.next > NumChildren(Top.obj)
    /\ LET found == Lookups(Top.obj, AllCurves(anim[Top.obj]), 1)
           bad   == FirstUnbuilt(found)
       IN IF bad = 0
          THEN /\ resolved' = resolved \o found
               /\ stack' = Pop(stack)
               /\ pc' = IF Len(stack) = 1 THEN "objects_done" ELSE pc
               /\ UNCHANGED exc
          ELSE /\ resolved' = resolved \o SubSeq(found, 1, bad)
               /\ pc' = "aborted"
               /\ exc' = [kind |-> "AttributeError", where |-> "create_action"]
               /\ UNCHANGED stack
    /\ UNCHANGED <<treeVars, mbmVars, parents, path, objects, object_paths, visited,
                   use_global_undo, reports, result, tex, bpy_textures, materials,
                   bobj, mesh_materials>>

\* ------------------------------------------------------------------ entry points
\* bpy.context.user_preferences.edit.use_global_undo = undo
UndoRestored(saved) == saved

\* a caller that takes every read for a success
ReadFailedNever(ok) == FALSE

\* if not mu.read(filepath)
ReadFailed(ok) == ~ok

\* import_mu_op up to the read: save use_global_undo, switch it off, deselect
ImportMuOpBegin ==
    /\ pc = "op_start"
    /\ use_global_undo' = FALSE
    /\ pc' = "op_read"
    /\ UNCHANGED <<treeVars, pathVars, mbmVars, reports, result, tex, bpy_textures,
                   materials, bobj, mesh_materials, resolved, exc>>

\* import_mu_op from the read to the call of process_mu: a failed read
\* restores use_global_undo, reports and returns {'CANCELLED'}
ImportMuOpRead ==
    /\ pc = "op_read"
    /\ IF ReadFailed(readOk)
       THEN /\ use_global_undo' = UndoRestored(undo)
            /\ reports' = Append(reports, "Unrecognized format")
            /\ result' = "CANCELLED"
            /\ pc' = "done"
       ELSE /\ pc' = "textures"
            /\ UNCHANGED <<use_global_undo, reports, result>>
    /\ UNCHANGED <<treeVars, pathVars, mbmVars, tex, bpy_textures, materials, bobj,
                   mesh_materials, resolved, exc>>

\* import_mu up to the call of process_mu: a failed read returns None
ImportMu ==
    /\ pc = "func_start"
    /\ IF ReadFailed(readOk)
       THEN /\ result' = "None"
            /\ pc' = "done"
       ELSE /\ pc' = "textures"
            /\ UNCHANGED result
    /\ UNCHANGED <<treeVars, pathVars, mbmVars, use_global_undo, reports, tex,
                   bpy_textures, materials, bobj, mesh_materials, resolved, exc>>

\* process_mu returns the root object; import_mu returns it, import_mu_op
\* selects it, restores use_global_undo and returns {'FINISHED'}
ImportFinish ==
    /\ pc = "objects_done"
    /\ IF entry = "op"
       THEN /\ use_global_undo' = UndoRestored(undo)
            /\ result' = "FINISHED"
       ELSE /\ result' = "object"
            /\ UNCHANGED use_global_undo
    /\ pc' = "done"
    /\ UNCHANGED <<treeVars, pathVars, mbmVars, reports, tex, bpy_textures,
                   materials, bobj, mesh_materials, resolved, exc>>

NextImport ==
    \/ ImportMuOpBegin \/ ImportMuOpRead \/ ImportMu
    \/ TextureTry \/ TexturesReturn
    \/ CreateMaterials
    \/ PathsBegin \/ PathsVisit \/ PathsDescend \/ PathsReturn
    \/ ObjectsBegin \/ ObjectBuild \/ ObjectDescend \/ ObjectReturn
    \/ ImportFinish

\* the state when an entry point is called
ImportStart ==
    /\ pc = IF entry = "op" THEN "op_start" ELSE "func_start"
    /\ use_global_undo = undo
    /\ reports = <<>>
    /\ result = "pending"
    /\ tex = [i |-> 1, c |-> 1]
    /\ bpy_textures = {}
    /\ bobj = EmptyDict
    /\ mesh_materials = EmptyDict
    /\ resolved = <<>>
    /\ exc = NoExc
    /\ stack = <<>>
    /\ parents = <<>>
    /\ path = EmptyDict
    /\ objects = EmptyDict
    /\ object_paths = EmptyDict
    /\ visited = <<>>
    /\ mbm = NoFile
    /\ ret = NoResult

\* ------------------------------------------------------------------ SpecTextures
\* a 1 by 1 raster that decodes, and the ways a raster file fails
GoodMbm ==
    [kind |-> "full", magic |-> MbmMagic, width |-> 1, height |-> 1, bump |-> 0,
     bpp |-> 32, data |-> Data(3, 4)]

TextureFiles ==
    {GoodMbm, [kind |-> "missing"], [kind |-> "short"],
     [GoodMbm EXCEPT !.magic = 0], [GoodMbm EXCEPT !.bpp = 8]}

\* a texture: the extension of its name, the extensions whose file the host
\* can load, and the .mbm file (or its absence)
TextureInputs ==
    [ext : {".mbm", ".png", ".jpg"}, host : {{}, {".png"}, {".dds"}},
     mbm : TextureFiles]

\* both entry points on a model of two bare nodes with up to MaxTextures textures
InitTextures ==
    /\ entry \in {"op", "func"}
    /\ readOk = TRUE
    /\ undo = TRUE
    /\ par = <<0, 1>>
    /\ name = <<<<"a">>, <<"b">>>>
    /\ comp = <<NoComponents, NoComponents>>
    /\ anim = <<<<>>, <<>>>>
    /\ textures \in UNION {[1..n -> TextureInputs] : n \in 0..MaxTextures}
    /\ materials = <<>>
    /\ ImportStart

SpecTextures == InitTextures /\ [][NextImport]_vars

\* ------------------------------------------------------------------ claims on SpecTextures
\* C8: a failure while loading one texture (missing file, bad magic,
\* unsupported depth, header shorter than 20 bytes) never leaves
\* create_textures by an exception, so process_mu always goes on.
C8_TextureFailureNeverAborts ==
    ~(pc = "aborted" /\ exc.where = "create_textures")

\* the same for the models none of whose .mbm files has a short header
TextureFailureCaught ==
    (\A i \in 1..Len(textures) : textures[i].mbm.kind # "short")
        => C8_TextureFailureNeverAborts

\* ------------------------------------------------------------------ SpecImport
\* the material indices a node may carry: the first material, and one past the
\* largest table
MaterialIndices == {0, MaxMaterials}

Components ==
    {NoComponents} \cup
    {[has |-> {"shared_mesh", "renderer"}, smr_materials |-> <<>>,
      renderer_materials |-> <<k>>] : k \in MaterialIndices} \cup
    {[has |-> {"skinned_mesh_renderer"}, smr_materials |-> <<k>>,
      renderer_materials |-> <<>>] : k \in MaterialIndices}

\* both entry points, reads that fail and reads that succeed, on every tree of
\* at most MaxImportNodes nodes with components and a material table of at
\* most MaxMaterials entries
InitImport ==
    /\ entry \in {"op", "func"}
    /\ readOk \in BOOLEAN
    /\ undo \in IF entry = "op" THEN BOOLEAN ELSE {FALSE}
    /\ par \in UNION {Trees(n) : n \in 1..MaxImportNodes}
    /\ name = [i \in 1..Len(par) |-> <<"a">>]
    /\ comp \in [1..Len(par) -> Components]
    /\ anim = [i \in 1..Len(par) |-> <<>>]
    /\ textures = <<[ext |-> ".mbm", host |-> {}, mbm |-> GoodMbm]>>
    /\ materials \in {[k \in 1..n |-> FALSE] : n \in 0..MaxMaterials}
    /\ ImportStart

SpecImport == InitImport /\ [][NextImport]_vars

\* ------------------------------------------------------------------ claims on SpecImport
\* C9: a node whose renderer or skinned mesh renderer names a material index
\* at or past the end of a non-empty mu.materials never makes create_object
\* leave by an exception: the node and the rest of the tree get their objects.
C9_DanglingMaterialNeverAborts ==
    ~(pc = "aborted" /\ exc.where = "create_object")

\* every index the nodes look up is in the table
IndicesInTable ==
    \A i \in Nodes : \A k \in 1..Len(SmrLookup(comp[i]) \o RendererLookup(comp[i])) :
        IndexOk((SmrLookup(comp[i]) \o RendererLookup(comp[i]))[k])

\* the same for the models all of whose material indices are in the table, and
\* then every node has its object when the import is done
ObjectsCreatedWhenIndicesInTable ==
    IndicesInTable =>
        /\ C9_DanglingMaterialNeverAborts
        /\ (pc = "done" /\ readOk) => DOMAIN bobj = Nodes

\* C10: when Mu.read fails, import_mu_op reports 'Unrecognized format' once,
\* returns CANCELLED and leaves use_global_undo as it found it, import_mu
\* returns None, and process_mu is never reached: no texture, material, path
\* index or object is made.
C10_FailedReadStopsImport ==
    ~readOk =>
        /\ pc \in {"op_start", "op_read", "func_start", "done"}
        /\ bpy_textures = {}
        /\ \A k \in 1..Len(materials) : ~materials[k]
        /\ DOMAIN objects = {} /\ DOMAIN object_paths = {} /\ DOMAIN path = {}
        /\ DOMAIN bobj = {}
        /\ exc = NoExc
        /\ pc = "done" =>
               IF entry = "op"
               THEN /\ reports = <<"Unrecognized format">>
                    /\ result = "CANCELLED"
                    /\ use_global_undo = undo
               ELSE /\ reports = <<>>
                    /\ result = "None"

\* import_mu_op has returned CANCELLED after a failed read of a model with
\* materials, with use_global_undo switched on again
C10_Witness ==
    /\ pc = "done"
    /\ ~readOk
    /\ entry = "op"
    /\ undo
    /\ use_global_undo
    /\ result = "CANCELLED"
    /\ Len(materials) > 0

\* ------------------------------------------------------------------ SpecAnim
\* the names of the nodes that are imported with animations
AnimNames == {<<>>, <<"a">>, Slash}

\* a node without animation, or with one clip of one curve, whose path is
\* empty (the node itself) or "a"
AnimInputs == {<<>>, <<<<<<>>>>>>, <<<<<<"a">>>>>>}

\* import_mu on every tree of at most MaxNodes bare nodes, with any names and
\* any animations of these sets
InitAnim ==
    /\ entry = "func"
    /\ readOk = TRUE
    /\ undo = FALSE
    /\ par \in UNION {Trees(n) : n \in 1..MaxNodes}
    /\ name \in [1..Len(par) -> AnimNames]
    /\ comp = [i \in 1..Len(par) |-> NoComponents]
    /\ anim \in [1..Len(par) -> AnimInputs]
    /\ textures = <<>>
    /\ materials = <<>>
    /\ ImportStart

NextAnim ==
    \/ ImportMu \/ TexturesReturn \/ CreateMaterials
    \/ PathsBegin \/ PathsVisit \/ PathsDescend \/ PathsReturn
    \/ ObjectsBegin \/ ObjectBuild \/ ObjectDescend \/ ObjectReturn
    \/ ImportFinish

SpecAnim == InitAnim /\ [][NextAnim]_vars

\* ------------------------------------------------------------------ claims on SpecAnim
\* node i and the nodes below it
Subtree(i) == {j \in Nodes : i \in AncSelf(par, j)}

\* no object exists before the path index is complete
IndexBeforeObjects ==
    DOMAIN bobj # {} =>
        /\ pc \in {"objects", "objects_done", "done", "aborted"}
        /\ DOMAIN path = Nodes
        /\ Len(visited) = NumNodes

\* a node's clips are bound only when the node and all nodes below it have
\* their object
ClipsAfterSubtree ==
    \A k \in 1..Len(resolved) : Subtree(resolved[k].owner) \subseteq DOMAIN bobj

\* every node create_action got from mu.object_paths had its bobj
ResolvedAreBuilt == \A k \in 1..Len(resolved) : resolved[k].built

\* C11: the path index is complete before any object is made, a node's clips
\* are bound after the objects of the node and of all nodes below it exist,
\* and so every node create_action gets from mu.object_paths has its bobj,
\* on every tree, whatever the names.
C11_ResolvedTargetIsBuilt ==
    /\ IndexBeforeObjects
    /\ ClipsAfterSubtree
    /\ ResolvedAreBuilt

\* the two orderings alone, on every tree
AnimOrdering == IndexBeforeObjects /\ ClipsAfterSubtree

\* the same as C11 for the trees where no two siblings share a name and no
\* name contains "/": there the node found is the owner or a node below it
ResolvedBuiltOnCleanTree ==
    (SiblingsDistinct /\ NoSlashInNames) =>
        /\ C11_ResolvedTargetIsBuilt
        /\ exc.where # "create_action"
        /\ \A k \in 1..Len(resolved) :
               resolved[k].target \in Subtree(resolved[k].owner)

====
